---------------------------- MODULE Spec2Model ----------------------------
(***************************************************************************)
(* Model of src/source/lockfile.py: the LockFile handle (Open, Close,      *)
(* Write, Read, Seek, the queries) on its two back ends, the Windows raw   *)
(* handle one (CreateFileW with share mode 0, SetFilePointerEx, WriteFile, *)
(* ReadFile) and the buffered stream one (open + flock) of every other     *)
(* platform, together with the part of the operating system the handle     *)
(* talks to: the files' bytes, the native resources and their locks.       *)
(*                                                                         *)
(* Python values are written as strings where Python mixes types: "None"   *)
(* is None, "b''" the empty bytes literal, the Windows access masks are    *)
(* the decimal text of the integers of lines 100-103.  An exception is the *)
(* name of its class, "None" when the call returned.                       *)
(***************************************************************************)
EXTENDS Integers, Sequences, FiniteSets, TLC

VARIABLES
    platform,   \* sys.platform, reduced to "win32" or "posix"
    fs,         \* the file system: path -> [exists, data]
    obj,        \* the LockFile objects: handle -> its fields and its stream
    osOpen,     \* per handle, the native resources it acquired and not yet released
    pending,    \* per handle, the Open that has made its existence check and not yet its native open
    last        \* the last call: operation, arguments, exception, result

vars == <<platform, fs, obj, osOpen, pending, last>>

-----------------------------------------------------------------------------
(* Bounds of the model *)

\* Largest file size (and cursor position) the model follows.
MaxSize == 2

\* MAXDATAPERITE (line 117, 100000 in the source) scaled to the model's sizes.
MAXDATAPERITE == 1

(* The two LockFile objects; they may live in one process or in two: the   *)
(* share mode of CreateFileW and flock both act between open file          *)
(* descriptions, whoever owns them.                                        *)
Handles == {"A", "B"}

(* File names handed to Open.  "t.txt" is legal everywhere; "a\tb" holds a *)
(* control character; "#bytes" stands for an argument that is not a str;   *)
(* "CON", a reserved device name, is tried on Windows, where it is         *)
(* rejected.                                                               *)
Paths == {"t.txt"}
FileNames == Paths \cup {"a\tb", "#bytes"} \cup (IF platform = "win32" THEN {"CON"} ELSE {})

\* Line 122-123: self.__modes
Modes == {"w", "r", "a", "rw", "wb", "rb", "ab", "rwb"}

\* encoding arguments tried: None, a str, something that is not a str.
Encodings == {"None", "UTF-8", "#int"}

(* The argument lists Open is called with: every token on every legal      *)
(* path, with and without a failure of the native open; and one call for   *)
(* each way the arguments can be wrong.                                    *)
OpenArgs ==
    {[filename |-> p, mode |-> m, encoding |-> "None", nativeFail |-> nf] :
        p \in Paths, m \in Modes, nf \in BOOLEAN}
    \cup {[filename |-> p, mode |-> "w", encoding |-> "None", nativeFail |-> FALSE] :
        p \in FileNames \ Paths}
    \cup {[filename |-> p, mode |-> "x", encoding |-> "None", nativeFail |-> FALSE] : p \in Paths}
    \cup {[filename |-> p, mode |-> m, encoding |-> e, nativeFail |-> FALSE] :
        p \in Paths, m \in {"w", "rwb"}, e \in Encodings \ {"None"}}

-----------------------------------------------------------------------------
(* Lines 99-114: the access modes of the two back ends *)

WRITEMODE == IF platform = "win32" THEN "1073741824" ELSE "w"

READMODE == IF platform = "win32" THEN "-2147483648" ELSE "r"

APPENDMODE == IF platform = "win32" THEN WRITEMODE ELSE "a"

\* 1073741824 | -2147483648 = -1073741824
WRITEANDREADMODE == IF platform = "win32" THEN "-1073741824" ELSE "r+"

\* isinstance(self.__file, HANDLE) on Windows, isinstance(self.__file, IOBase) elsewhere
NativeKind == IF platform = "win32" THEN "HANDLE" ELSE "IOBase"

-----------------------------------------------------------------------------
(* Values *)

\* self.__file = None
NoFile == [kind |-> "None", valid |-> FALSE, path |-> "", pos |-> 0, lock |-> FALSE, omode |-> "", text |-> FALSE, pend |-> <<>>]

\* Lines 124-127: the fields __init__ sets
FreshObject == [filename |-> "", mode |-> "None", file |-> NoFile, binary |-> FALSE]

NoFileOnDisk == [exists |-> FALSE, data |-> <<>>]

EmptyFile == [exists |-> TRUE, data |-> <<>>]

\* No Open of the handle is between its existence check and its native open
NoPending == [mode |-> "", existed |-> FALSE]

NoCall == [op |-> "init", h |-> "A", exc |-> "None", tok |-> "", ret |-> 0, data |-> <<>>, done |-> 0, close |-> "none"]

Call(op, h, exc) == [NoCall EXCEPT !.op = op, !.h = h, !.exc = exc]

\* os.path.exists(filename)
exists(p) == fs[p].exists

\* str.startswith / str.endswith on the mode tokens
StartsWith(mode, prefix) ==
    CASE prefix = "rw" -> mode \in {"rw", "rwb"}
      [] prefix = "w" -> mode \in {"w", "wb"}
      [] prefix = "r" -> mode \in {"r", "rb", "rw", "rwb"}
      [] prefix = "a" -> mode \in {"a", "ab"}
      [] prefix = "r+" -> mode \in {"r+", "r+b"}

EndsWithB(mode) == mode \in {"wb", "rb", "ab", "rwb"}

\* Line 244: self._mode.replace("b", "")
ReplaceB(m) ==
    CASE m = "wb" -> "w"
      [] m = "rb" -> "r"
      [] m = "ab" -> "a"
      [] m = "r+b" -> "r+"
      [] OTHER -> m

\* Lines 517-543: _ValidateFileName
ValidateFileName(filename) ==
    IF filename = "a\tb" THEN FALSE
    ELSE IF platform # "win32" THEN TRUE
    ELSE filename # "CON"

-----------------------------------------------------------------------------
(* The operating system *)

(* CreateFileW is called with dwShareMode 0 (line 221): it fails with a    *)
(* sharing violation while any other handle on the file is open, before    *)
(* its disposition touches the file.                                       *)
SharingViolation(h, p) ==
    \E g \in Handles \ {h} : obj[g].file.valid /\ obj[g].file.path = p

(* flock(LOCK_EX | LOCK_NB) (line 242) fails with BlockingIOError, an      *)
(* OSError, while another open file description holds the lock.            *)
FlockFails(h, p) ==
    \E g \in Handles \ {h} : obj[g].file.valid /\ obj[g].file.path = p /\ obj[g].file.lock

\* The bytes of a file after `bytes` are written at offset `at` (a gap reads as 0).
WriteAt(data, at, bytes) ==
    LET n == IF at + Len(bytes) > Len(data) THEN at + Len(bytes) ELSE Len(data)
    IN [i \in 1..n |->
            IF i > at /\ i <= at + Len(bytes) THEN bytes[i - at]
            ELSE IF i <= Len(data) THEN data[i]
            ELSE 0]

(* The buffered stream writes its pending bytes: at the place they were    *)
(* written to, or at the end of the file when it was opened for append.    *)
Flushed(f, files) ==
    IF f.kind # "IOBase" \/ ~f.valid \/ f.pend = <<>> THEN files
    ELSE LET d == files[f.path].data
             at == IF f.omode = "a" THEN Len(d) ELSE f.pos - Len(f.pend)
         IN [files EXCEPT ![f.path] = [exists |-> TRUE, data |-> WriteAt(d, at, f.pend)]]


-----------------------------------------------------------------------------
(* LockFile.Open, lines 132-244 *)

\* Line 213: self._mode += "b"
AppendB(m) ==
    CASE m = "w" -> "wb"
      [] m = "r" -> "rb"
      [] m = "a" -> "ab"
      [] m = "r+" -> "r+b"
      [] OTHER -> m

\* Lines 163-171: the object already holds a native file
AlreadyOpen(o) == o.file.kind = NativeKind /\ o.filename # ""

(* Lines 187-209: the access mode a token resolves to.  The branches are   *)
(* tried in the order of the source: rw, w, r, a.                          *)
ResolveMode(mode) ==
    IF StartsWith(mode, "rw") THEN WRITEANDREADMODE
    ELSE IF StartsWith(mode, "w") THEN WRITEMODE
    ELSE IF StartsWith(mode, "r") THEN READMODE
    ELSE APPENDMODE

(* Lines 190-209: createdisposition, 2 = CREATE_ALWAYS, 3 = OPEN_EXISTING  *)
DispositionFor(mode, existed) ==
    IF StartsWith(mode, "rw") THEN (IF ~existed THEN 2 ELSE 3)
    ELSE IF StartsWith(mode, "w") THEN 2
    ELSE IF StartsWith(mode, "r") THEN 3
    ELSE (IF ~existed THEN 2 ELSE 3)

CreateDisposition(mode, filename) == DispositionFor(mode, exists(filename))

\* Lines 211-217: the binary flag is set for a token ending in b, and never reset here
BinaryAfter(o, mode) == IF EndsWithB(mode) THEN TRUE ELSE o.binary

(* Line 225: self.__file == 4294967295 compares a ctypes HANDLE object     *)
(* with an int.  ctypes objects define no equality, so the comparison is   *)
(* by identity and is False whatever CreateFileW returned.                 *)
HandleEqualsInvalid(f) == FALSE

(* Lines 219-227: the Windows back end.  o holds the fields as lines       *)
(* 180-217 left them.                                                      *)
(* existed is what exists(filename) answered at lines 190-209, which may be *)
(* some time before CreateFileW is called.                                 *)
OpenWin32At(h, o, filename, mode, nativeFail, existed) ==
    LET disp == DispositionFor(mode, existed)
        failed == nativeFail \/ SharingViolation(h, filename) \/ (disp = 3 /\ ~exists(filename))
        size == IF disp = 2 THEN 0 ELSE Len(fs[filename].data)
        invalid == [NoFile EXCEPT !.kind = "HANDLE"]
        handle == [kind |-> "HANDLE", valid |-> TRUE, path |-> filename,
                   pos |-> IF mode = "a" THEN size ELSE 0,
                   lock |-> TRUE, omode |-> o.mode, text |-> FALSE, pend |-> <<>>]
    IN IF failed
       THEN [o |-> [o EXCEPT !.file = invalid],
             fs |-> fs,
             acquired |-> 0,
             \* line 227: Seek(0, "end") on the invalid handle raises from __Seek
             exc |-> IF HandleEqualsInvalid(invalid) \/ mode = "a" THEN "OSError" ELSE "None"]
       ELSE [o |-> [o EXCEPT !.file = handle],
             fs |-> IF disp = 2 THEN [fs EXCEPT ![filename] = EmptyFile] ELSE fs,
             acquired |-> 1,
             exc |-> "None"]

OpenWin32(h, o, filename, mode, nativeFail) == OpenWin32At(h, o, filename, mode, nativeFail, exists(filename))

(* Lines 229-244: the buffered stream back end.  The file is created by    *)
(* line 236 for r+ on an absent file, opened (and, for w, truncated) by    *)
(* lines 238-240, and only then locked by line 242.  existed is what       *)
(* exists(filename) answered at line 235.                                  *)
OpenPosixAt(h, o, filename, mode, encoding, nativeFail, existed) ==
    LET created == IF StartsWith(o.mode, "r+") /\ ~existed
                   THEN [fs EXCEPT ![filename] = EmptyFile] ELSE fs
        opened == IF ReplaceB(o.mode) = "w" \/ ~created[filename].exists
                  THEN [created EXCEPT ![filename] = EmptyFile] ELSE created
        stream == [kind |-> "IOBase", valid |-> TRUE, path |-> filename,
                   pos |-> IF ReplaceB(o.mode) = "a" THEN Len(opened[filename].data) ELSE 0,
                   lock |-> FALSE, omode |-> ReplaceB(o.mode),
                   text |-> o.mode = ReplaceB(o.mode), pend |-> <<>>]
    IN IF encoding = "#int"
       THEN [o |-> o, fs |-> fs, acquired |-> 0, exc |-> "TypeError"]
       ELSE IF nativeFail
       THEN [o |-> o, fs |-> fs, acquired |-> 0, exc |-> "OSError"]
       ELSE IF FlockFails(h, filename)
       THEN [o |-> [o EXCEPT !.file = stream], fs |-> opened, acquired |-> 1, exc |-> "OSError"]
       ELSE [o |-> [o EXCEPT !.file = [stream EXCEPT !.lock = TRUE], !.mode = ReplaceB(o.mode)],
             fs |-> opened, acquired |-> 1, exc |-> "None"]

OpenPosix(h, o, filename, mode, encoding, nativeFail) ==
    OpenPosixAt(h, o, filename, mode, encoding, nativeFail, exists(filename))

(* Lines 163-217: the checks of the arguments and the fields set before    *)
(* the native open; exc is "None" when Open goes on to its back end.       *)
OpenPrepare(h, filename, mode) ==
    LET o0 == obj[h]
        o1 == [o0 EXCEPT !.filename = filename]
        o2 == [o1 EXCEPT !.mode = ResolveMode(mode)]
        o3 == [o2 EXCEPT !.binary = BinaryAfter(o2, mode),
                         !.mode = IF platform # "win32" /\ EndsWithB(mode) THEN AppendB(o2.mode) ELSE o2.mode]
    IN IF AlreadyOpen(o0) THEN [o |-> o0, exc |-> "UnsupportedOperation"]
       ELSE IF filename = "#bytes" THEN [o |-> o0, exc |-> "TypeError"]
       ELSE IF ~ValidateFileName(filename) THEN [o |-> o0, exc |-> "ValueError"]
       ELSE IF mode \notin Modes THEN [o |-> o1, exc |-> "ValueError"]
       ELSE IF ~StartsWith(mode, "rw") /\ ~StartsWith(mode, "w") /\ StartsWith(mode, "r") /\ ~exists(filename)
       THEN [o |-> o1, exc |-> "FileNotFoundError"]
       ELSE [o |-> o3, exc |-> "None"]

(* Open as a whole: the new fields of the object, the new file system, the *)
(* number of native resources acquired and the exception raised.           *)
OpenResult(h, filename, mode, encoding, nativeFail) ==
    LET p == OpenPrepare(h, filename, mode)
    IN IF p.exc # "None" THEN [o |-> p.o, fs |-> fs, acquired |-> 0, exc |-> p.exc]
       ELSE IF platform = "win32" THEN OpenWin32(h, p.o, filename, mode, nativeFail)
       ELSE OpenPosix(h, p.o, filename, mode, encoding, nativeFail)

Open(h, filename, mode, encoding, nativeFail) ==
    /\ LET r == OpenResult(h, filename, mode, encoding, nativeFail)
       IN /\ obj' = [obj EXCEPT ![h] = r.o]
          /\ fs' = r.fs
          /\ osOpen' = [osOpen EXCEPT ![h] = @ + r.acquired]
          /\ last' = [Call("Open", h, r.exc) EXCEPT !.tok = mode]
    /\ UNCHANGED <<platform, pending>>

(* Open in two steps, for the runs in which another process acts between  *)
(* the existence check of Open (line 190 on Windows, line 235 elsewhere)   *)
(* and its native open.  OpenBegin is Open up to that check, OpenFinish    *)
(* the rest of it.                                                         *)
OpenBegin(h, filename, mode) ==
    /\ pending[h] = NoPending
    /\ LET p == OpenPrepare(h, filename, mode)
       IN /\ obj' = [obj EXCEPT ![h] = p.o]
          /\ pending' = [pending EXCEPT ![h] = IF p.exc = "None"
                                                THEN [mode |-> mode, existed |-> exists(filename)]
                                                ELSE NoPending]
          /\ last' = [Call(IF p.exc = "None" THEN "OpenBegin" ELSE "Open", h, p.exc) EXCEPT !.tok = mode]
    /\ UNCHANGED <<platform, fs, osOpen>>

OpenFinish(h) ==
    /\ pending[h] # NoPending
    /\ LET o == obj[h]
           mode == pending[h].mode
           existed == pending[h].existed
           r == IF platform = "win32" THEN OpenWin32At(h, o, o.filename, mode, FALSE, existed)
                ELSE OpenPosixAt(h, o, o.filename, mode, "None", FALSE, existed)
       IN /\ obj' = [obj EXCEPT ![h] = r.o]
          /\ fs' = r.fs
          /\ osOpen' = [osOpen EXCEPT ![h] = @ + r.acquired]
          /\ last' = [Call("Open", h, r.exc) EXCEPT !.tok = mode]
    /\ pending' = [pending EXCEPT ![h] = NoPending]
    /\ UNCHANGED platform

-----------------------------------------------------------------------------
(* LockFile.Close, lines 430-440, and the calls that end in it *)

(* Lines 432-435: the native close is issued when __file is a native       *)
(* object: "live" when that object is an open resource, "dead" when it is  *)
(* not (an invalid handle, a resource closed before), "none" when no       *)
(* native close is issued.                                                 *)
NativeClose(o) ==
    IF o.file.kind # NativeKind THEN "none"
    ELSE IF o.file.valid THEN "live"
    ELSE "dead"

\* Close with line 439, self.__file = None, left out
ClosedFieldsKeepsFile(o) == [o EXCEPT !.filename = "b''", !.mode = "None", !.binary = FALSE]

\* Lines 437-440
ClosedFields(o) == [o EXCEPT !.filename = "b''", !.mode = "None", !.file = NoFile, !.binary = FALSE]

CloseAs(op, h, after) ==
    /\ LET o == obj[h]
           issued == NativeClose(o)
       IN /\ obj' = [obj EXCEPT ![h] = after]
          /\ fs' = IF issued = "live" THEN Flushed(o.file, fs) ELSE fs
          /\ osOpen' = [osOpen EXCEPT ![h] = IF issued = "live" THEN @ - 1 ELSE @]
          /\ last' = [Call(op, h, "None") EXCEPT !.close = issued]
    /\ UNCHANGED <<platform, pending>>

Close(h) == CloseAs("Close", h, ClosedFields(obj[h]))

\* Line 506: __exit__ calls Close
Exit(h) == CloseAs("__exit__", h, ClosedFields(obj[h]))

(* Line 508: __del__ calls Close when the object is discarded.  The name h *)
(* then stands for the next object built by LockFile(), with the fields of *)
(* lines 124-127.                                                          *)
Del(h) == CloseAs("__del__", h, FreshObject)

-----------------------------------------------------------------------------
(* Helpers of the data operations *)

\* Lines 478-488: _HaveFileOpen raises unless __file is a native object
HaveFileOpen(o) == o.file.kind = NativeKind

Max(a, b) == IF a >= b THEN a ELSE b

Min(a, b) == IF a <= b THEN a ELSE b

\* Line 263: bytes(data, encoding = "UTF-8"), one code point at a time
Utf8Char(c) == IF c < 128 THEN <<c>> ELSE <<192 + (c \div 64), 128 + (c % 64)>>

RECURSIVE Utf8(_)
Utf8(text) == IF text = <<>> THEN <<>> ELSE Utf8Char(Head(text)) \o Utf8(Tail(text))

\* The result of a data operation: fields, file system, exception, value, data, native calls done
Result(o, files, exc, ret, data, done) == [o |-> o, fs |-> files, exc |-> exc, ret |-> ret, data |-> data, done |-> done]

Raise(o, exc) == Result(o, fs, exc, 0, <<>>, 0)

\* sizeof(LARGE_INTEGER) * 8 (line 372, 64 in the source) scaled to the model's sizes.
LargeIntegerBits == 4

\* Line 372
LARGE_INTEGER_size == 2 ^ LargeIntegerBits

\* ctypes converts a Python int to LARGE_INTEGER by keeping its low bits, as a signed value
AsLargeInteger(x) ==
    LET m == x % LARGE_INTEGER_size
    IN IF m >= LARGE_INTEGER_size \div 2 THEN m - LARGE_INTEGER_size ELSE m

(* Lines 490-497: __Seek, SetFilePointerEx(handle, offset, out, method),   *)
(* method 0 from the start, 1 from the pointer, 2 from the end.  It fails  *)
(* on a handle that is not open and on a target that is negative or not a  *)
(* LARGE_INTEGER; ok is FALSE where __Seek raises OSError.                 *)
NativeSeek(f, files, offset, method) ==
    LET base == IF method = 0 THEN 0
                ELSE IF method = 1 THEN f.pos
                ELSE Len(files[f.path].data)
        target == base + AsLargeInteger(offset)
    IN IF f.kind # "HANDLE" \/ ~f.valid THEN [ok |-> FALSE, pos |-> 0]
       ELSE IF target < 0 \/ target > LARGE_INTEGER_size \div 2 - 1 THEN [ok |-> FALSE, pos |-> f.pos]
       ELSE [ok |-> TRUE, pos |-> target]

\* The size of the file a handle or a stream is open on
SizeOf(f, files) == Len(files[f.path].data)

-----------------------------------------------------------------------------
(* LockFile.Seek, lines 349-418, and Seek2, lines 420-428 *)

(* Lines 371-392, the Windows back end.  The branch for a negative offset  *)
(* from the end moves the pointer to the end and calls Seek again with     *)
(* "current".                                                              *)
(* Lines 376-384: the offset handed to __Seek, for the cursor position     *)
(* last_offset that line 374 read.                                         *)
HandedOffset(offset, startpoint, last_offset) ==
    IF offset < 0 /\ startpoint = "begin" THEN 0
    ELSE IF offset < 0 /\ (last_offset + offset) < 0 THEN -last_offset
    ELSE IF offset > (LARGE_INTEGER_size \div 2 - 1 + last_offset)
    THEN LARGE_INTEGER_size \div 2 - 1 - last_offset
    ELSE offset

RECURSIVE SeekWin32(_, _, _, _)
\* SeekWin32 with the branch of lines 376-377, a negative offset from "begin", left out
SeekWin32NoBeginClamp(o, files, offset, startpoint) ==
    LET f == o.file
        cur == NativeSeek(f, files, 0, 1)
        last_offset == cur.pos
        atEnd == NativeSeek(f, files, 0, 2)
        offset2 == IF offset < 0 /\ startpoint = "begin" THEN offset
                   ELSE IF offset < 0 /\ (last_offset + offset) < 0 THEN -last_offset
                   ELSE IF offset > (LARGE_INTEGER_size \div 2 - 1 + last_offset)
                   THEN LARGE_INTEGER_size \div 2 - 1 - last_offset
                   ELSE offset
        method == CASE startpoint = "begin" -> 0
                    [] startpoint = "current" -> 1
                    [] startpoint = "end" -> 2
                    [] OTHER -> -1
        moved == NativeSeek(f, files, offset2, method)
    IN IF ~cur.ok THEN Result(o, files, "OSError", 0, <<>>, 0)
       ELSE IF offset < 0 /\ startpoint = "end"
       THEN IF ~atEnd.ok THEN Result(o, files, "OSError", 0, <<>>, 0)
            ELSE SeekWin32([o EXCEPT !.file.pos = atEnd.pos], files, offset, "current")
       ELSE IF method = -1 THEN Result(o, files, "ValueError", 0, <<>>, 0)
       ELSE IF ~moved.ok THEN Result(o, files, "OSError", 0, <<>>, 0)
       ELSE Result([o EXCEPT !.file.pos = moved.pos], files, "None", moved.pos, <<>>, 0)

SeekWin32(o, files, offset, startpoint) ==
    LET f == o.file
        cur == NativeSeek(f, files, 0, 1)
        last_offset == cur.pos
        atEnd == NativeSeek(f, files, 0, 2)
        offset2 == HandedOffset(offset, startpoint, last_offset)
        method == CASE startpoint = "begin" -> 0
                    [] startpoint = "current" -> 1
                    [] startpoint = "end" -> 2
                    [] OTHER -> -1
        moved == NativeSeek(f, files, offset2, method)
    IN IF ~cur.ok THEN Result(o, files, "OSError", 0, <<>>, 0)
       ELSE IF offset < 0 /\ startpoint = "end"
       THEN IF ~atEnd.ok THEN Result(o, files, "OSError", 0, <<>>, 0)
            ELSE SeekWin32([o EXCEPT !.file.pos = atEnd.pos], files, offset, "current")
       ELSE IF method = -1 THEN Result(o, files, "ValueError", 0, <<>>, 0)
       ELSE IF ~moved.ok THEN Result(o, files, "OSError", 0, <<>>, 0)
       ELSE Result([o EXCEPT !.file.pos = moved.pos], files, "None", moved.pos, <<>>, 0)

(* self.__file.tell(): a text stream flushes what it holds before it       *)
(* answers, a binary stream answers without flushing.                      *)
TellFlushes(f) == f.text

\* The stream and the file system after tell()
AfterTell(f, files) ==
    IF TellFlushes(f) THEN [f |-> [f EXCEPT !.pend = <<>>], fs |-> Flushed(f, files)]
    ELSE [f |-> f, fs |-> files]

\* SeekPosix with the branch of lines 401-402, (last_offset + offset) < 0, left out
SeekPosixNoLowerClamp(o, files, offset, startpoint) ==
    LET f == o.file
        base == CASE startpoint = "begin" -> 0
                  [] startpoint = "end" -> Len(files[o.filename].data)
                  [] OTHER -> f.pos
        target == base + offset
        f2 == [f EXCEPT !.pos = target, !.pend = <<>>]
    IN IF startpoint \notin {"begin", "current", "end"} THEN Result(o, files, "ValueError", 0, <<>>, 0)
       ELSE Result([o EXCEPT !.file = f2], Flushed(f, files), "None", target, <<>>, 0)

(* Lines 394-418, the stream back end.  begin and end seek and then call   *)
(* Seek again with "current"; every seek of the stream flushes it.  The    *)
(* size for "end" is read from the path (line 412) before that seek.       *)
SeekPosix(o, files, offset, startpoint) ==
    LET f == o.file
        base == CASE startpoint = "begin" -> 0
                  [] startpoint = "end" -> Len(files[o.filename].data)
                  [] OTHER -> f.pos
        target == IF offset < 0 /\ (base + offset) < 0 THEN 0 ELSE base + offset
        flushes == startpoint # "current" \/ offset # 0 \/ TellFlushes(f)
        files2 == IF flushes THEN Flushed(f, files) ELSE files
        f2 == [f EXCEPT !.pos = target, !.pend = IF flushes THEN <<>> ELSE f.pend]
    IN IF startpoint \notin {"begin", "current", "end"} THEN Result(o, files, "ValueError", 0, <<>>, 0)
       ELSE Result([o EXCEPT !.file = f2], files2, "None", target, <<>>, 0)

\* Lines 364-370, then the back end
SeekResult(o, files, offset, offsetIsInt, startpoint) ==
    IF ~HaveFileOpen(o) THEN Result(o, files, "UnsupportedOperation", 0, <<>>, 0)
    ELSE IF ~offsetIsInt THEN Result(o, files, "TypeError", 0, <<>>, 0)
    ELSE IF platform = "win32" THEN SeekWin32(o, files, offset, startpoint)
    ELSE SeekPosix(o, files, offset, startpoint)

-----------------------------------------------------------------------------
(* LockFile.GetFileSize, lines 442-455, and GetCursorPos, lines 457-463 *)

GetFileSizeResult(o, files) ==
    IF ~HaveFileOpen(o) THEN Result(o, files, "UnsupportedOperation", 0, <<>>, 0)
    ELSE IF platform = "win32"
    THEN IF o.file.valid THEN Result(o, files, "None", SizeOf(o.file, files), <<>>, 0)
         ELSE Result(o, files, "OSError", 0, <<>>, 0)
    ELSE Result(o, files, "None", Len(files[o.filename].data), <<>>, 0)

(* GetCursorPos does not call _HaveFileOpen: with __file = None, __Seek     *)
(* hands a null handle to SetFilePointerEx and raises OSError, and         *)
(* None.tell() raises AttributeError.                                      *)
GetCursorPosResult(o, files) ==
    IF platform = "win32"
    THEN LET cur == NativeSeek(o.file, files, 0, 1)
         IN IF cur.ok THEN Result(o, files, "None", cur.pos, <<>>, 0)
            ELSE Result(o, files, "OSError", 0, <<>>, 0)
    ELSE IF o.file.kind = "None" THEN Result(o, files, "AttributeError", 0, <<>>, 0)
    ELSE LET t == AfterTell(o.file, files)
         IN Result([o EXCEPT !.file = t.f], t.fs, "None", o.file.pos, <<>>, 0)

-----------------------------------------------------------------------------
(* LockFile.Write, lines 246-284 *)

(* Lines 266-281: the loop of WriteFile calls.  count is the loop's        *)
(* variable, calls the number of native calls made so far, failAt the      *)
(* number of the native call that fails (0: none does).  A call on a       *)
(* handle that is not open fails.  reqs lists the native calls in order:   *)
(* off is where in data the buffer handed to WriteFile starts              *)
(* (data[count:]), size the nNumberOfBytesToWrite argument.                *)
Request(off, size) == [off |-> off, size |-> size]

\* The outcome r of the rest of a loop, after the native call req
Requested(req, r) == [r EXCEPT !.reqs = <<req>> \o @]

RECURSIVE WriteLoop(_, _, _, _, _, _)
\* WriteLoop with every WriteFile asked for all of data[count:], the cap of line 270 left out
WriteLoopNoChunkCap(f, files, data, count, calls, failAt) ==
    IF Len(data) = count THEN [f |-> f, fs |-> files, exc |-> "None", done |-> calls, reqs |-> <<>>]
    ELSE LET big == (Len(data) - count) > MAXDATAPERITE
             size == Len(data) - count
             chunk == SubSeq(data, count + 1, count + size)
             written == [files EXCEPT ![f.path].data = WriteAt(@, f.pos, chunk)]
         IN IF ~f.valid \/ failAt = calls + 1
            THEN [f |-> f, fs |-> files, exc |-> "OSError", done |-> calls, reqs |-> <<Request(count, size)>>]
            ELSE Requested(Request(count, size),
                           WriteLoop([f EXCEPT !.pos = @ + size], written, data,
                                     IF big THEN count + MAXDATAPERITE ELSE Len(data), calls + 1, failAt))

\* WriteLoop with the file pointer left where it was after each WriteFile
WriteLoopCursorStays(f, files, data, count, calls, failAt) ==
    IF Len(data) = count THEN [f |-> f, fs |-> files, exc |-> "None", done |-> calls, reqs |-> <<>>]
    ELSE LET big == (Len(data) - count) > MAXDATAPERITE
             size == IF big THEN MAXDATAPERITE ELSE Len(data) - count
             chunk == SubSeq(data, count + 1, count + size)
             written == [files EXCEPT ![f.path].data = WriteAt(@, f.pos, chunk)]
         IN IF ~f.valid \/ failAt = calls + 1
            THEN [f |-> f, fs |-> files, exc |-> "OSError", done |-> calls, reqs |-> <<Request(count, size)>>]
            ELSE Requested(Request(count, size),
                           WriteLoop(f, written, data,
                                     IF big THEN count + MAXDATAPERITE ELSE Len(data), calls + 1, failAt))

WriteLoop(f, files, data, count, calls, failAt) ==
    IF Len(data) = count THEN [f |-> f, fs |-> files, exc |-> "None", done |-> calls, reqs |-> <<>>]
    ELSE LET big == (Len(data) - count) > MAXDATAPERITE
             size == IF big THEN MAXDATAPERITE ELSE Len(data) - count
             chunk == SubSeq(data, count + 1, count + size)
             written == [files EXCEPT ![f.path].data = WriteAt(@, f.pos, chunk)]
         IN IF ~f.valid \/ failAt = calls + 1
            THEN [f |-> f, fs |-> files, exc |-> "OSError", done |-> calls, reqs |-> <<Request(count, size)>>]
            ELSE Requested(Request(count, size),
                           WriteLoop([f EXCEPT !.pos = @ + size], written, data,
                                     IF big THEN count + MAXDATAPERITE ELSE Len(data), calls + 1, failAt))

(* Line 284: self.__file.write(data) on the stream.  The stream rejects    *)
(* data of the other type and a write when it was opened for reading; it   *)
(* keeps the bytes in its buffer, and writes them out at once when the     *)
(* buffer overflows (spill).                                               *)
WritePosix(o, files, data, dtype, failAt, spill) ==
    LET f == o.file
        bytes == IF f.text THEN Utf8(data) ELSE data
        f2 == [f EXCEPT !.pos = @ + Len(bytes), !.pend = @ \o bytes]
    IN IF f.text # (dtype = "str") THEN Result(o, files, "TypeError", 0, <<>>, 0)
       ELSE IF f.omode = "r" THEN Result(o, files, "UnsupportedOperation", 0, <<>>, 0)
       ELSE IF failAt # 0 THEN Result(o, files, "OSError", 0, <<>>, 0)
       ELSE IF spill THEN Result([o EXCEPT !.file = [f2 EXCEPT !.pend = <<>>]], Flushed(f2, files), "None", 0, <<>>, 1)
       ELSE Result([o EXCEPT !.file = f2], files, "None", 0, <<>>, 1)

\* Write with the check of lines 258-260 (self._mode == READMODE) left out
WriteResultNoModeCheck(o, files, data, dtype, failAt, spill) ==
    IF ~HaveFileOpen(o) THEN Result(o, files, "UnsupportedOperation", 0, <<>>, 0)
    ELSE IF o.binary /\ dtype # "bytes" THEN Result(o, files, "TypeError", 0, <<>>, 0)
    ELSE IF ~o.binary /\ dtype # "str" THEN Result(o, files, "TypeError", 0, <<>>, 0)
    ELSE IF platform = "win32"
    THEN LET w == WriteLoop(o.file, files, IF dtype = "str" THEN Utf8(data) ELSE data, 0, 0, failAt)
         IN Result([o EXCEPT !.file = w.f], w.fs, w.exc, 0, <<>>, w.done)
    ELSE WritePosix(o, files, data, dtype, failAt, spill)

WriteResult(o, files, data, dtype, failAt, spill) ==
    IF ~HaveFileOpen(o) THEN Result(o, files, "UnsupportedOperation", 0, <<>>, 0)
    ELSE IF o.binary /\ dtype # "bytes" THEN Result(o, files, "TypeError", 0, <<>>, 0)
    ELSE IF ~o.binary /\ dtype # "str" THEN Result(o, files, "TypeError", 0, <<>>, 0)
    ELSE IF o.mode = READMODE THEN Result(o, files, "UnsupportedOperation", 0, <<>>, 0)
    ELSE IF platform = "win32"
    THEN LET w == WriteLoop(o.file, files, IF dtype = "str" THEN Utf8(data) ELSE data, 0, 0, failAt)
         IN Result([o EXCEPT !.file = w.f], w.fs, w.exc, 0, <<>>, w.done)
    ELSE WritePosix(o, files, data, dtype, failAt, spill)

-----------------------------------------------------------------------------
(* LockFile.Read, lines 286-347 *)

\* ReadLength with a negative n_chars counted from the end with + 2 for the + 1 of line 314
ReadLengthOffByOne(pos, size, n_chars) ==
    IF pos >= size THEN 0
    ELSE IF (size - pos + n_chars + 1) < 0 THEN 0
    ELSE IF n_chars < 0 THEN size - pos + (n_chars + 2)
    ELSE IF (pos + n_chars) > size THEN size - pos
    ELSE n_chars

\* ReadLength with the branch of lines 315-316, (pos + n_chars) > size, left out
ReadLengthNoUpperClamp(pos, size, n_chars) ==
    IF pos >= size THEN 0
    ELSE IF (size - pos + n_chars + 1) < 0 THEN 0
    ELSE IF n_chars < 0 THEN size - pos + (n_chars + 1)
    ELSE n_chars

\* Lines 309-316: the number of units Read asks the back end for
ReadLength(pos, size, n_chars) ==
    IF pos >= size THEN 0
    ELSE IF (size - pos + n_chars + 1) < 0 THEN 0
    ELSE IF n_chars < 0 THEN size - pos + (n_chars + 1)
    ELSE IF (pos + n_chars) > size THEN size - pos
    ELSE n_chars

\* What one native read of at most n bytes at the pointer returns
BytesAt(f, files, n) ==
    LET d == files[f.path].data
    IN IF f.pos >= Len(d) THEN <<>> ELSE SubSeq(d, f.pos + 1, Min(f.pos + n, Len(d)))

\* A buffer of n zero bytes, bytes put in at offset at
Zeroes(n) == [i \in 1..n |-> 0]

(* Lines 322-341: the loop of ReadFile calls into the buffer out.  In a    *)
(* request, off is where in out the address handed to ReadFile points      *)
(* (_GetAddress(out) + count), size the nNumberOfBytesToRead argument.     *)
RECURSIVE ReadLoop(_, _, _, _, _, _, _)
ReadLoop(f, files, out, n_chars, count, calls, failAt) ==
    IF (n_chars - count) = 0 THEN [f |-> f, out |-> out, exc |-> "None", done |-> calls, reqs |-> <<>>]
    ELSE LET big == (n_chars - count) > MAXDATAPERITE
             size == IF big THEN MAXDATAPERITE ELSE n_chars - count
             got == BytesAt(f, files, size)
         IN IF ~f.valid \/ failAt = calls + 1
            THEN [f |-> f, out |-> out, exc |-> "OSError", done |-> calls, reqs |-> <<Request(count, size)>>]
            ELSE Requested(Request(count, size),
                           ReadLoop([f EXCEPT !.pos = @ + Len(got)], files, WriteAt(out, count, got), n_chars,
                                    IF big THEN count + MAXDATAPERITE ELSE n_chars, calls + 1, failAt))

\* Bytes that are UTF-8 for code points below 2048
RECURSIVE IsUtf8(_)
IsUtf8(b) ==
    IF b = <<>> THEN TRUE
    ELSE IF Head(b) < 128 THEN IsUtf8(Tail(b))
    ELSE IF Head(b) \in 194..223 /\ Len(b) >= 2 /\ b[2] \in 128..191 THEN IsUtf8(Tail(Tail(b)))
    ELSE FALSE

RECURSIVE DecodeUtf8(_)
DecodeUtf8(b) ==
    IF b = <<>> THEN <<>>
    ELSE IF Head(b) < 128 THEN <<Head(b)>> \o DecodeUtf8(Tail(b))
    ELSE <<(Head(b) - 192) * 64 + (b[2] - 128)>> \o DecodeUtf8(Tail(Tail(b)))

\* Lines 471-476: _BytesToStr, UTF-8 and, when that fails, ISO-8859-1 (every byte a character)
BytesToStr(l_bytes) == IF IsUtf8(l_bytes) THEN DecodeUtf8(l_bytes) ELSE l_bytes

(* What a text stream makes of the bytes it reads: UTF-8 decoded, and,     *)
(* open() being called without newline, "\r\n" and "\r" turned into "\n".  *)
(* Each character comes with the number of bytes it was read from.         *)
RECURSIVE TextDecode(_)
TextDecode(b) ==
    IF b = <<>> THEN <<>>
    ELSE IF Head(b) = 13 /\ Len(b) >= 2 /\ b[2] = 10
    THEN <<[c |-> 10, w |-> 2]>> \o TextDecode(Tail(Tail(b)))
    ELSE IF Head(b) = 13 THEN <<[c |-> 10, w |-> 1]>> \o TextDecode(Tail(b))
    ELSE IF Head(b) < 128 THEN <<[c |-> Head(b), w |-> 1]>> \o TextDecode(Tail(b))
    ELSE <<[c |-> (Head(b) - 192) * 64 + (b[2] - 128), w |-> 2]>> \o TextDecode(Tail(Tail(b)))

\* The bytes the first n decoded characters were read from
RECURSIVE BytesUsed(_, _)
BytesUsed(chars, n) == IF n = 0 THEN 0 ELSE chars[n].w + BytesUsed(chars, n - 1)

(* Line 347: self.__file.read(n_chars) on the stream, which writes out     *)
(* what it holds before it reads.  A binary stream returns at most n_chars *)
(* bytes; a text stream decodes what is left of the file, raising          *)
(* UnicodeDecodeError when that is no UTF-8, and returns at most n_chars   *)
(* characters.                                                             *)
ReadPosix(o, files, n_chars, failAt) ==
    LET f == o.file
        files2 == Flushed(f, files)
        got == BytesAt(f, files2, n_chars)
        rest == BytesAt(f, files2, Len(files2[f.path].data))
        chars == TextDecode(rest)
        taken == Min(n_chars, Len(chars))
    IN IF f.omode \notin {"r", "r+"} THEN Result(o, files, "UnsupportedOperation", 0, <<>>, 0)
       ELSE IF failAt # 0 THEN Result(o, files, "OSError", 0, <<>>, 0)
       ELSE IF ~f.text
       THEN Result([o EXCEPT !.file = [f EXCEPT !.pos = @ + Len(got), !.pend = <<>>]], files2, "None", 0, got, 1)
       ELSE IF n_chars > 0 /\ ~IsUtf8(rest)
       THEN Result([o EXCEPT !.file = [f EXCEPT !.pend = <<>>]], files2, "UnicodeDecodeError", 0, <<>>, 1)
       ELSE Result([o EXCEPT !.file = [f EXCEPT !.pos = @ + BytesUsed(chars, taken), !.pend = <<>>]], files2, "None", 0,
                   [i \in 1..taken |-> chars[i].c], 1)

ReadResult(o, files, n_chars, nIsInt, failAt) ==
    LET s == SeekResult(o, files, 0, TRUE, "current")
        size == GetFileSizeResult(s.o, s.fs)
        n == ReadLength(s.ret, size.ret, n_chars)
        r == ReadLoop(s.o.file, s.fs, Zeroes(n), n, 0, 0, failAt)
    IN IF ~HaveFileOpen(o) THEN Result(o, files, "UnsupportedOperation", 0, <<>>, 0)
       ELSE IF o.mode = WRITEMODE THEN Result(o, files, "UnsupportedOperation", 0, <<>>, 0)
       ELSE IF ~nIsInt THEN Result(o, files, "TypeError", 0, <<>>, 0)
       ELSE IF s.exc # "None" THEN s
       ELSE IF size.exc # "None" THEN size
       ELSE IF platform = "win32"
       THEN Result([s.o EXCEPT !.file = r.f], s.fs, r.exc, 0,
                   IF r.exc # "None" THEN <<>> ELSE IF o.binary THEN r.out ELSE BytesToStr(r.out), r.done)
       ELSE ReadPosix(s.o, s.fs, n, failAt)

-----------------------------------------------------------------------------
(* The data operations as steps *)

\* A call that leaves the native resources as they are
DataCall(op, h, r) ==
    /\ r.o.file.pos <= MaxSize
    /\ \A p \in Paths : Len(r.fs[p].data) <= MaxSize
    /\ obj' = [obj EXCEPT ![h] = r.o]
    /\ fs' = r.fs
    /\ last' = [Call(op, h, r.exc) EXCEPT !.ret = r.ret, !.data = r.data, !.done = r.done]
    /\ UNCHANGED <<platform, osOpen, pending>>

Write(h, data, dtype, failAt, spill) == DataCall("Write", h, WriteResult(obj[h], fs, data, dtype, failAt, spill))

Read(h, n_chars, nIsInt, failAt) == DataCall("Read", h, ReadResult(obj[h], fs, n_chars, nIsInt, failAt))

Seek(h, offset, offsetIsInt, startpoint) == DataCall("Seek", h, SeekResult(obj[h], fs, offset, offsetIsInt, startpoint))

\* Line 428: Seek2(pos) is Seek(pos, "begin")
Seek2Result(o, files, pos) == SeekResult(o, files, pos, TRUE, "begin")

Seek2(h, pos) == DataCall("Seek2", h, Seek2Result(obj[h], fs, pos))

GetFileSize(h) == DataCall("GetFileSize", h, GetFileSizeResult(obj[h], fs))

GetCursorPos(h) == DataCall("GetCursorPos", h, GetCursorPosResult(obj[h], fs))

\* Lines 465-469: the queries
IsWriteable(h) == obj[h].mode # READMODE

IsReadable(h) == obj[h].mode # WRITEMODE

IsBinary(h) == obj[h].binary

-----------------------------------------------------------------------------
Init ==
    /\ platform \in {"win32", "posix"}
    /\ fs = [p \in Paths |-> NoFileOnDisk]
    /\ obj = [h \in Handles |-> FreshObject]
    /\ osOpen = [h \in Handles |-> 0]
    /\ pending = [h \in Handles |-> NoPending]
    /\ last = NoCall

(* The arguments of the data operations: data of the two types, of no,    *)
(* one and several chunks, with a native call failing or none; lengths     *)
(* below, at and above what is left; offsets on both sides of 0 from each  *)
(* anchor, an offset that is no int and an anchor that is none.            *)
WriteArgs(datas, fails) ==
    {[data |-> d, dtype |-> t, failAt |-> k, spill |-> sp] :
        d \in datas, t \in {"str", "bytes"}, k \in fails,
        sp \in IF platform = "win32" THEN {FALSE} ELSE BOOLEAN}

ReadArgs(lengths, fails) ==
    {[n_chars |-> n, nIsInt |-> TRUE, failAt |-> k] : n \in lengths, k \in fails}
    \cup {[n_chars |-> 0, nIsInt |-> FALSE, failAt |-> 0]}

SeekArgs(offsets) ==
    {[offset |-> x, offsetIsInt |-> TRUE, startpoint |-> sp] : x \in offsets, sp \in {"begin", "current", "end"}}
    \cup {[offset |-> 0, offsetIsInt |-> FALSE, startpoint |-> "current"],
          [offset |-> 0, offsetIsInt |-> TRUE, startpoint |-> "middle"]}

\* Opening, closing and discarding a handle
Lifecycle(h) ==
    \/ \E a \in OpenArgs : Open(h, a.filename, a.mode, a.encoding, a.nativeFail)
    \/ Close(h)
    \/ Exit(h)
    \/ Del(h)

\* The data operations of a handle
DataOps(h, writes, reads, seeks) ==
    \/ \E a \in writes : Write(h, a.data, a.dtype, a.failAt, a.spill)
    \/ \E a \in reads : Read(h, a.n_chars, a.nIsInt, a.failAt)
    \/ \E a \in seeks : Seek(h, a.offset, a.offsetIsInt, a.startpoint)
    \/ \E pos \in {0, 1} : Seek2(h, pos)
    \/ GetFileSize(h)
    \/ GetCursorPos(h)

\* Largest file size and cursor position while two handles compete for the file.
MaxShared == 1

SmallFiles ==
    /\ \A p \in Paths : Len(fs[p].data) <= MaxShared
    /\ \A h \in Handles : obj[h].file.pos <= MaxShared

(* Two handles compete for the file.  Handle "A" is opened, closed and     *)
(* discarded in every way, and reads, writes and seeks within the first    *)
(* bytes of the file; handle "B", of the same or of another process, opens *)
(* the file for writing or for reading and writing, and closes it.         *)
Next ==
    \/ Lifecycle("A")
    \/ /\ DataOps("A", WriteArgs({<<>>, <<65>>}, {0, 1}), ReadArgs({-1, 1}, {0, 1}), SeekArgs({-1, 0, 1}))
       /\ SmallFiles'
    \/ \E mode \in {"w", "rw"} : Open("B", "t.txt", mode, "None", FALSE)
    \/ Close("B")

Spec == Init /\ [][Next]_vars

\* Data of n units: 'A' and 'B' in turn
DataOf(n) == [i \in 1..n |-> IF i % 2 = 1 THEN 65 ELSE 66]

Datas == {DataOf(n) : n \in 0..MaxSize}

\* The most native calls one Write or Read of the model makes
MaxCalls == (MaxSize + MAXDATAPERITE - 1) \div MAXDATAPERITE

\* The arguments of the data operations of SpecIO
IOWrites == WriteArgs(Datas, 0..MaxCalls)

IOReads == ReadArgs({-MaxSize - 2, -2, -1, 0, 1, MaxSize + 1}, 0..MaxCalls)

IOSeeks == SeekArgs({-MaxSize - 1, -1, 0, 1, LARGE_INTEGER_size \div 2 - 1, LARGE_INTEGER_size \div 2})

(* One handle on one file, with the data operations in full: data of every *)
(* length up to the largest file, of one chunk and of several, each native *)
(* call of a transfer failing in turn; every length and offset that falls  *)
(* below, inside and beyond the file.                                      *)
NextIO ==
    \/ \E mode \in Modes : Open("A", "t.txt", mode, "None", FALSE)
    \/ Close("A")
    \/ DataOps("A", IOWrites, IOReads, IOSeeks)

SpecIO == Init /\ [][NextIO]_vars

(* The characters and bytes of the round trips: a letter, a carriage       *)
(* return, and 233, which is e with an acute accent as a character (two    *)
(* bytes in UTF-8) and no UTF-8 as a byte.                                 *)
RTChars == {65, 13, 233}

\* Every text and every byte string of at most MaxSize units
RTDatas == UNION {[1..k -> RTChars] : k \in 0..MaxSize}

(* One handle writes a file, with one Write or with several, closes it,    *)
(* opens it for reading and reads it to its end.                           *)
NextRT ==
    \/ \E mode \in {"w", "wb", "r", "rb"} : Open("A", "t.txt", mode, "None", FALSE)
    \/ Close("A")
    \/ \E a \in WriteArgs(RTDatas, {0}) : Write("A", a.data, a.dtype, a.failAt, a.spill)
    \/ Read("A", -1, TRUE, 0)

SpecRT == Init /\ [][NextRT]_vars

(* Two processes and one path.  Handle "A" opens the file for reading and *)
(* writing, its Open taken in its two steps, and closes it; between any    *)
(* two of these steps handle "B", of another process, opens the file for   *)
(* writing, writes to it and closes it.                                    *)
NextRace ==
    \/ \E mode \in {"rw", "rwb"} : OpenBegin("A", "t.txt", mode)
    \/ OpenFinish("A")
    \/ pending["A"] = NoPending /\ Close("A")
    \/ Open("B", "t.txt", "w", "None", FALSE)
    \/ \E a \in WriteArgs(Datas, {0}) : Write("B", a.data, a.dtype, a.failAt, a.spill)
    \/ Close("B")

SpecRace == Init /\ [][NextRace]_vars

-----------------------------------------------------------------------------
(* The handle's two states, as _HaveFileOpen tells them apart *)

IsOpen(h) == HaveFileOpen(obj[h])

IsClosed(h) == ~HaveFileOpen(obj[h])

\* The handle holds a native resource on path p
Holds(h, p) == obj[h].file.valid /\ obj[h].file.path = p

DataOpNames == {"Read", "Write", "Seek", "Seek2", "GetCursorPos", "GetFileSize"}

CloseOpNames == {"Close", "__exit__", "__del__"}

-----------------------------------------------------------------------------
(* Claims *)

(* C1: mutual exclusion across handles.  While one handle is Open on a     *)
(* path, an Open of the same path on another handle fails, so that in no   *)
(* reachable state are two handles Open on the same path.                  *)
C1_NoTwoHandlesOpenOnSamePath ==
    \A a, b \in Handles :
        (a # b /\ IsOpen(a) /\ IsOpen(b)) => obj[a].filename # obj[b].filename

(* C2: an Open that fails on a Closed handle leaves the handle Closed.     *)
(* Every step that is a failing Open on a handle that was Closed ends with *)
(* the handle Closed.                                                      *)
C2_FailedOpenLeavesClosed ==
    [][(last'.op = "Open" /\ last'.exc # "None" /\ obj[last'.h].file.kind = "None")
          => obj'[last'.h].file.kind = "None"]_vars

(* C3: acquiring the resource, with its create/truncate disposition, and   *)
(* acquiring the lock are one atomic step: an Open that fails because      *)
(* another handle holds the path leaves the bytes of the path as they      *)
(* were.                                                                   *)
C3_FailedOpenKeepsContent ==
    [][\A p \in Paths :
          (/\ last'.op = "Open"
           /\ last'.exc = "OSError"
           /\ obj'[last'.h].filename = p
           /\ \E g \in Handles \ {last'.h} : Holds(g, p) /\ obj[g].file.lock)
          => fs'[p] = fs[p]]_vars

(* C4: in every reachable state the access mode is set if and only if the  *)
(* native resource is.                                                     *)
C4_ModeIffResource ==
    \A h \in Handles : (obj[h].mode # "None") <=> (obj[h].file.kind # "None")

(* C5: every native resource is released exactly once.  No native close is *)
(* issued on something that is not an open resource (one closed before, or *)
(* none at all), and after Close, scoped exit or discard the handle has no *)
(* resource left unreleased.                                               *)
C5_ReleasedExactlyOnce ==
    /\ last.close # "dead"
    /\ last.op \in CloseOpNames => osOpen[last.h] = 0

\* Lines 437-440: the fields of a handle after Close
ClosedObject == [filename |-> "b''", mode |-> "None", file |-> NoFile, binary |-> FALSE]

(* C6: Close is total and idempotent.  In whatever state it is called it   *)
(* raises nothing and ends in the one Closed state, so that a second Close *)
(* changes nothing.                                                        *)
C6_CloseTotalIdempotent ==
    last.op = "Close" => (last.exc = "None" /\ obj[last.h] = ClosedObject /\ IsClosed(last.h))

\* C6's case: Close was called on a handle that held no native object (never opened, or Closed before).
C6_Witness == last.op = "Close" /\ last.close = "none" /\ obj[last.h] = ClosedObject

(* C7: every data operation called on a Closed handle fails with NotOpen   *)
(* (UnsupportedOperation) and leaves the handle Closed.  No data operation *)
(* changes whether the handle holds a native object, so the handle was     *)
(* Closed before the call exactly when it is after it.                     *)
C7_ClosedHandleRaisesNotOpen ==
    (last.op \in DataOpNames /\ IsClosed(last.h)) => last.exc = "UnsupportedOperation"

(* C8: right after a successful Open with token t, IsWriteable() holds     *)
(* exactly for w, wb, a, ab, rw, rwb and IsReadable() exactly for r, rb,   *)
(* rw, rwb.                                                                *)
C8_DirectionQueriesMatchToken ==
    (last.op = "Open" /\ last.exc = "None") =>
        /\ IsWriteable(last.h) <=> (last.tok \in {"w", "wb", "a", "ab", "rw", "rwb"})
        /\ IsReadable(last.h) <=> (last.tok \in {"r", "rb", "rw", "rwb"})

(* C9: right after a successful Open with token t, IsBinary() holds        *)
(* exactly for wb, rb, ab, rwb, whatever was called on the handle before.  *)
C9_BinaryMatchesToken ==
    (last.op = "Open" /\ last.exc = "None") => (IsBinary(last.h) <=> EndsWithB(last.tok))

(* C10, as claimed: a native call that fails in the middle of a transfer   *)
(* of several chunks leaves the file and the cursor as they were before    *)
(* the Write or the Read.                                                  *)
C10_FailedTransferChangesNothing ==
    [][(last'.op \in {"Write", "Read"} /\ last'.exc = "OSError" /\ last'.done >= 1)
          => (fs' = fs /\ obj'[last'.h].file.pos = obj[last'.h].file.pos)]_vars

(* C10, as the code has it: when a native call fails after k >= 1 calls of *)
(* the transfer succeeded, the Write or Read raises OSError and returns    *)
(* nothing, and the k chunks before it keep their effect: the cursor is    *)
(* k * MAXDATAPERITE further, and after a Write the file holds the first   *)
(* k * MAXDATAPERITE bytes of the data where the cursor was, and no byte   *)
(* of a later chunk; a Read leaves the file as it was.                     *)
C10_FailedTransferKeepsEarlierChunks ==
    [][(last'.exc = "OSError" /\ last'.done >= 1) =>
          /\ last'.op \in {"Write", "Read"}
          /\ obj'[last'.h].file.pos = obj[last'.h].file.pos + last'.done * MAXDATAPERITE
          /\ last'.data = <<>>
          /\ last'.op = "Read" => fs' = fs
          /\ \A a \in WriteArgs(Datas, 1..MaxCalls) :
                Write("A", a.data, a.dtype, a.failAt, a.spill)
                => LET moved == last'.done * MAXDATAPERITE
                       bytes == IF a.dtype = "str" THEN Utf8(a.data) ELSE a.data
                   IN /\ moved < Len(bytes)
                      /\ fs'["t.txt"].data = WriteAt(fs["t.txt"].data, obj["A"].file.pos, SubSeq(bytes, 1, moved))]_vars

\* C10's case: the second native call of a Write failed after the first wrote its chunk.
C10_Witness ==
    /\ last.op = "Write" /\ last.exc = "OSError" /\ last.done >= 1
    /\ Len(fs["t.txt"].data) >= MAXDATAPERITE

(* C11: mode legality, with no effect on rejection.  In every state, a     *)
(* Write on a handle opened for reading and a Read on a handle opened for  *)
(* writing leave the handle, its cursor and the file as they are; the Read *)
(* raises UnsupportedOperation, and so does the Write of data of the       *)
(* handle's type.                                                          *)
C11_WrongDirectionRejectedWithoutEffect ==
    obj["A"].file.valid =>
        /\ obj["A"].mode = WRITEMODE =>
              \A a \in IOReads :
                  LET r == ReadResult(obj["A"], fs, a.n_chars, a.nIsInt, a.failAt)
                  IN r.exc = "UnsupportedOperation" /\ r.o = obj["A"] /\ r.fs = fs
        /\ obj["A"].mode = READMODE =>
              \A a \in IOWrites :
                  LET r == WriteResult(obj["A"], fs, a.data, a.dtype, a.failAt, a.spill)
                  IN /\ r.exc # "None" /\ r.o = obj["A"] /\ r.fs = fs
                     /\ ((a.dtype = "bytes") = obj["A"].binary) => r.exc = "UnsupportedOperation"

\* C11's case: a Write of well-typed data was rejected on a handle open for reading.
C11_Witness ==
    /\ last.op = "Write" /\ last.exc = "UnsupportedOperation"
    /\ obj[last.h].file.valid /\ obj[last.h].mode = READMODE

\* The size of the file a handle is open on, with what its stream still holds written out
TrueSize(h) == Len(Flushed(obj[h].file, fs)[obj[h].file.path].data)

FreshReadHandle(h) ==
    /\ last.op = "Open" /\ last.h = h /\ last.exc = "None" /\ last.tok \in {"r", "rb"}
    /\ obj[h].file.valid

ContentOf(h) == Flushed(obj[h].file, fs)[obj[h].file.path].data

(* C14: round trip.  Every Write(d) through a handle opened with w or wb   *)
(* puts d, UTF-8 encoded for text, after what the handle wrote before, and *)
(* Close leaves exactly that in the file; a Read(-1) on a handle freshly   *)
(* opened with rb returns the bytes of the file, and on a handle freshly   *)
(* opened with r returns the text d whose encoding the file holds.  So     *)
(* what is written, in one Write or in several, and then read is the same. *)
C14_RoundTrip ==
    [][/\ (last'.op = "Write" /\ last'.exc = "None" /\ obj["A"].file.valid) =>
             \A a \in WriteArgs(RTDatas, {0}) :
                 Write("A", a.data, a.dtype, a.failAt, a.spill) =>
                     ContentOf("A")' = ContentOf("A") \o (IF a.dtype = "str" THEN Utf8(a.data) ELSE a.data)
       /\ (last'.op = "Close" /\ obj["A"].file.valid) => fs'["t.txt"].data = ContentOf("A")
       /\ (FreshReadHandle("A") /\ Read("A", -1, TRUE, 0)) =>
             IF obj["A"].binary THEN last'.exc = "None" /\ last'.data = fs["t.txt"].data
             ELSE \A d \in RTDatas :
                      Utf8(d) = fs["t.txt"].data => (last'.exc = "None" /\ last'.data = d)]_vars

\* The largest offset a LARGE_INTEGER holds (line 383: LARGE_INTEGER_size // 2 - 1)
MaxOffset == LARGE_INTEGER_size \div 2 - 1

(* C15, as claimed: after every Seek or Seek2 that returns on an Open      *)
(* handle the cursor position p satisfies 0 <= p <= fileSize.              *)
C15_CursorWithinFile ==
    (last.op \in {"Seek", "Seek2"} /\ last.exc = "None" /\ obj[last.h].file.valid) =>
        (0 <= obj[last.h].file.pos /\ obj[last.h].file.pos <= TrueSize(last.h))

(* C15, as the code has it: after every Seek or Seek2 that returns on an   *)
(* Open handle the cursor position p is the value returned and is never    *)
(* negative; it is not bounded by the size of the file: a Seek beyond the  *)
(* end of the file is carried out.                                         *)
C15_CursorNeverNegative ==
    (last.op \in {"Seek", "Seek2"} /\ last.exc = "None" /\ obj[last.h].file.valid) =>
        /\ 0 <= obj[last.h].file.pos
        /\ last.ret = obj[last.h].file.pos

\* C15's case: a Seek returned with the cursor beyond the end of the file.
C15_Witness ==
    /\ last.op \in {"Seek", "Seek2"} /\ last.exc = "None" /\ obj[last.h].file.valid
    /\ obj[last.h].file.pos > TrueSize(last.h)

(* C16: append positioning.  Right after a successful Open with a or ab on *)
(* a file that exists, of size S, the cursor is at the end of the file,    *)
(* GetCursorPos() = S, and the S bytes are as they were.                   *)
C16_AppendOpensAtEnd ==
    [][(/\ last'.op = "Open" /\ last'.exc = "None" /\ last'.tok \in {"a", "ab"}
        /\ exists(obj'[last'.h].filename))
          => LET h == last'.h
                 p == obj'[h].filename
             IN /\ fs'[p] = fs[p]
                /\ obj'[h].file.pos = Len(fs[p].data)
                /\ GetCursorPosResult(obj'[h], fs').ret = Len(fs[p].data)]_vars

(* C17: Open with rw or rwb never alters existing content.  When the file  *)
(* exists at the moment the native open is made, a successful Open leaves  *)
(* its bytes as they were, with the cursor at 0, whatever another process  *)
(* did to the path since the existence check of this Open.                 *)
C17_ReadWriteOpenKeepsContent ==
    [][(/\ last'.op = "Open" /\ last'.h = "A" /\ last'.exc = "None"
        /\ last'.tok \in {"rw", "rwb"}
        /\ exists("t.txt"))
          => (fs'["t.txt"] = fs["t.txt"] /\ obj'["A"].file.pos = 0)]_vars

(* C18: Seek from the begin and current anchors.  In every state, on an    *)
(* Open handle with cursor pos, Seek(offset, "begin") sets the cursor to   *)
(* max(0, offset) and returns it, Seek(offset, "current") sets it to       *)
(* max(0, pos + offset) and returns it, for every offset whose target is   *)
(* addressable; Seek(0, "current") leaves the cursor where it was and      *)
(* returns what GetCursorPos() returns; Seek2(pos) does what               *)
(* Seek(pos, "begin") does.                                                *)
C18_SeekBeginCurrentNormalised ==
    obj["A"].file.valid =>
        LET pos == obj["A"].file.pos
        IN /\ \A a \in IOSeeks :
                 LET target == Max(0, (IF a.startpoint = "begin" THEN 0 ELSE pos) + a.offset)
                     r == SeekResult(obj["A"], fs, a.offset, a.offsetIsInt, a.startpoint)
                 IN (a.offsetIsInt /\ a.startpoint \in {"begin", "current"} /\ target <= MaxOffset)
                    => /\ r.exc = "None"
                       /\ r.ret = target
                       /\ r.o.file.pos = target
                       /\ (a.offset = 0 /\ a.startpoint = "current")
                             => (target = pos /\ r.ret = GetCursorPosResult(obj["A"], fs).ret)
           /\ \A p \in {0, 1} :
                 LET r == Seek2Result(obj["A"], fs, p)
                 IN /\ r.exc = "None" /\ r.ret = Max(0, p) /\ r.o.file.pos = Max(0, p)
                    /\ r = SeekResult(obj["A"], fs, p, TRUE, "begin")

\* C18's case: a Seek returned 0 and left the cursor at the start of a file that holds data.
C18_Witness ==
    /\ last.op = "Seek" /\ last.exc = "None" /\ last.ret = 0
    /\ obj[last.h].file.valid /\ obj[last.h].file.pos = 0 /\ TrueSize(last.h) >= 1

(* C19: the end anchor.  On an Open handle, after whatever was written     *)
(* through it, GetFileSize() returns the size S of the file with every     *)
(* byte written through the handle counted, and Seek(offset, "end") sets   *)
(* the cursor to max(0, S + offset) and returns it.                        *)
C19_EndAnchorCountsWrittenBytes ==
    [][(last'.op \in {"GetFileSize", "Seek"} /\ obj["A"].file.valid) =>
          LET S == TrueSize("A")
          IN /\ (last'.op = "GetFileSize" /\ last'.exc = "None") => last'.ret = S
             /\ \A a \in IOSeeks :
                   (/\ a.offsetIsInt /\ a.startpoint = "end"
                    /\ Seek("A", a.offset, a.offsetIsInt, a.startpoint))
                   => /\ last'.exc = "None"
                      /\ last'.ret = Max(0, S + a.offset)
                      /\ obj'["A"].file.pos = Max(0, S + a.offset)]_vars

(* C20: the upper clamp of the raw-handle back end.  For every cursor      *)
(* position, every integer offset and every anchor, the absolute target    *)
(* Seek hands to the native set-position call lies between 0 and the       *)
(* largest addressable offset, so that the call does not fail: a target    *)
(* beyond that offset is clamped to it.                                    *)
C20_TargetWithinAddressableRange ==
    [][(last'.op = "Seek" /\ platform = "win32" /\ obj["A"].file.valid) =>
          \A a \in IOSeeks :
              (/\ a.offsetIsInt /\ a.startpoint \in {"begin", "current", "end"}
               /\ Seek("A", a.offset, a.offsetIsInt, a.startpoint))
              => LET pos == obj["A"].file.pos
                     S == SizeOf(obj["A"].file, fs)
                     fromEnd == a.offset < 0 /\ a.startpoint = "end"
                     handed == HandedOffset(a.offset, IF fromEnd THEN "current" ELSE a.startpoint,
                                            IF fromEnd THEN S ELSE pos)
                     base == CASE a.startpoint = "begin" -> 0
                               [] a.startpoint = "current" -> pos
                               [] a.startpoint = "end" -> S
                 IN /\ 0 <= base + handed /\ base + handed <= MaxOffset
                    /\ last'.exc = "None"]_vars

(* C21: chunked transfer on the raw-handle back end.  For every logical    *)
(* length N >= 0, when every native call succeeds the Write loop and the   *)
(* Read loop each end after exactly ceil(N / MAXDATAPERITE) native calls,  *)
(* every call asks for at most MAXDATAPERITE bytes, the k-th call starts   *)
(* at offset (k-1) * MAXDATAPERITE of the buffer, and the sizes asked for  *)
(* add up to N; no native call is made when N = 0.                         *)

\* The lengths the loops are run on: from none to two chunks and one byte more
ChunkLengths == 0..(2 * MAXDATAPERITE + 1)

RECURSIVE SumOfSizes(_)
SumOfSizes(reqs) == IF reqs = <<>> THEN 0 ELSE Head(reqs).size + SumOfSizes(Tail(reqs))

\* The requests reqs move N bytes in chunks of at most MAXDATAPERITE, in order
Chunked(reqs, N) ==
    /\ Len(reqs) = (N + MAXDATAPERITE - 1) \div MAXDATAPERITE
    /\ \A k \in 1..Len(reqs) :
          /\ reqs[k].size >= 1
          /\ reqs[k].size <= MAXDATAPERITE
          /\ reqs[k].off = (k - 1) * MAXDATAPERITE
    /\ SumOfSizes(reqs) = N

=============================================================================
